---- MODULE Spec2Model ----
(***************************************************************************)
(* The plugin broker of src/server.ts: the action dispatcher, the          *)
(* credential gate, the plugin registry, the remote stub and the map of    *)
(* pending resolvers.  Every async handler is a task that advances from    *)
(* one await to the next; the event loop interleaves the tasks.            *)
(***************************************************************************)
EXTENDS Integers, Sequences, FiniteSets, TLC

(***************************************************************************)
(* Bounds of the model.                                                    *)
(***************************************************************************)
MaxFrames == 4        \* frames delivered by the transport in one run
MaxInFlight == 2      \* handlers suspended at an await at the same time
MaxPending == 1       \* resolvers the remote stubs register in one run

(***************************************************************************)
(* JavaScript values, tagged by type.                                      *)
(***************************************************************************)
Undef == [t |-> "undefined"]
Null == [t |-> "null"]
Num(n) == [t |-> "number", n |-> n]
Str(s) == [t |-> "string", s |-> s]
Arr(a) == [t |-> "array", a |-> a]
Err(name, m) == [t |-> "error", name |-> name, m |-> m]
Fn(f) == [t |-> "function", f |-> f]
Absent == [t |-> "absent"]

Digit(d) == <<"0", "1", "2", "3", "4", "5", "6", "7", "8", "9">>[d + 1]

RECURSIVE NumStr(_)
NumStr(n) == IF n < 10 THEN Digit(n) ELSE NumStr(n \div 10) \o Digit(n % 10)

RECURSIVE JSString(_)
RECURSIVE Join(_)
\* Array.prototype.join(","), the string form of an array
Join(a) ==
  IF Len(a) = 0 THEN ""
  ELSE IF Len(a) = 1 THEN JSString(a[1])
  ELSE JSString(a[1]) \o "," \o Join(Tail(a))

\* String(v), also the string a template literal or a + puts in for v
JSString(v) ==
  CASE v.t = "undefined" -> "undefined"
    [] v.t = "null" -> "null"
    [] v.t = "number" -> NumStr(v.n)
    [] v.t = "string" -> v.s
    [] v.t = "array" -> Join(v.a)
    [] v.t = "error" -> v.name \o ": " \o v.m
    [] v.t = "function" -> "function " \o v.f \o "() { [native code] }"

\* the check left out: every value passes
Truthy_always(v) == TRUE

\* ToBoolean(v): what "v || x" and "if (!v)" test
Truthy(v) ==
  CASE v.t = "undefined" -> FALSE
    [] v.t = "null" -> FALSE
    [] v.t = "number" -> v.n # 0
    [] v.t = "string" -> v.s # ""
    [] OTHER -> TRUE

\* error.message in place of String(error)
ErrorText_message(error) == error.m

\* String(error) in a handler's catch
ErrorText(error) == JSString(error)

\* a || b
OrElse(a, b) == IF Truthy(a) THEN a ELSE b

\* a + b
JSAdd(a, b) ==
  IF a.t = "number" /\ b.t = "number" THEN Num(a.n + b.n)
  ELSE Str(JSString(a) \o JSString(b))

\* the i-th formal parameter of a function invoked with the parameter list p
Param(p, i) == IF i <= Len(p) THEN p[i] ELSE Undef

\* JSON.stringify of one property value: a function or undefined is left out
JSONValue(v) == IF v.t \in {"undefined", "function"} THEN Absent ELSE v

(***************************************************************************)
(* Credentials.  A token is a payload and its HMAC under a key; the HMAC   *)
(* is ideal: it is determined by, and determines, the key and the payload. *)
(***************************************************************************)
ServerKey == "key"

Sign(key, payload) == <<key, payload.name, payload.version>>

\* generateToken(plugin): create(header, plugin, this.key)
generateToken(plugin) == [payload |-> plugin, sig |-> Sign(ServerKey, plugin)]

\* the payload decoded without checking the signature
verify_unchecked(token, key) == [ok |-> TRUE, payload |-> token.payload]

\* verify(token, key): the payload, or a throw
verify(token, key) ==
  IF token.sig = Sign(key, token.payload)
  THEN [ok |-> TRUE, payload |-> token.payload]
  ELSE [ok |-> FALSE, payload |-> [name |-> "", version |-> ""]]

\* authenticate(token)
authenticate(token) ==
  LET v == verify(token, ServerKey) IN
  IF v.ok
  THEN [name |-> v.payload.name, version |-> v.payload.version, error |-> FALSE]
  ELSE [name |-> "", version |-> "", error |-> TRUE]

(***************************************************************************)
(* The plugin packages under rootPath.  A package directory holds a        *)
(* package.json whose kasif.identifier names the plugin, and an entry      *)
(* module whose exports are the plugin's function table.                   *)
(***************************************************************************)
Clients == {"c1", "c2"}

\* the clients that send call, retrieve, response and unknown frames
Callers == {"c2"}

Dirs == {"math", "util-pkg", "broken", "ghost"}

Identifiers == {"math", "util"}

\* JSON.parse(await Deno.readTextFile(join(rootPath, name, "package.json")))
Manifest(dir) ==
  CASE dir = "math" -> [ok |-> TRUE, identifier |-> "math", error |-> Null]
    [] dir = "util-pkg" -> [ok |-> TRUE, identifier |-> "util", error |-> Null]
    [] dir = "broken" -> [ok |-> TRUE, identifier |-> "math", error |-> Null]
    [] OTHER -> [ok |-> FALSE, identifier |-> "",
                 error |-> Err("NotFound", "No such file or directory")]

\* await import(scriptPath): the module namespace, or a throw
Import(dir) ==
  CASE dir = "math" ->
         [ok |-> TRUE, error |-> Null,
          mod |-> [add |-> Fn("add"), boom |-> Fn("boom"), ask |-> Fn("ask"),
                   zero |-> Fn("zero"), noop |-> Fn("noop"), PI |-> Num(3),
                   ZERO |-> Num(0)]]
    [] dir = "util-pkg" ->
         [ok |-> TRUE, error |-> Null,
          mod |-> [PI |-> Num(4), boom |-> Fn("boom")]]
    [] OTHER -> [ok |-> FALSE, error |-> Err("SyntaxError", "Unexpected token"), mod |-> <<>>]

\* functions[name]: undefined when the module exports no such name
Entry(functions, name) ==
  IF name \in DOMAIN functions THEN functions[name] ELSE Undef

\* What a plugin function does when invoked with the parameter list p: it
\* returns a value, throws a value, or awaits a call through its remote stub
\* and returns what that resolves to.
Invoke(f, p) ==
  CASE f = "add" -> [kind |-> "return", value |-> JSAdd(Param(p, 1), Param(p, 2))]
    [] f = "zero" -> [kind |-> "return", value |-> Num(0)]
    [] f = "noop" -> [kind |-> "return", value |-> Undef]
    [] f = "boom" -> [kind |-> "throw", value |-> Err("Error", "boom")]
    [] f = "ask" -> [kind |-> "remote", value |-> Str("callback")]

(***************************************************************************)
(* The broker's state.                                                     *)
(***************************************************************************)
VARIABLES
  plugins,    \* this.plugins: identifier -> [client, functions]
  resolvers,  \* this.resolvers: the correlation ids that have a resolver
  deferred,   \* the promise each resolver settles: its value once resolved
  stub,       \* globalThis[identifier]: the client its remote stub sends to
  tasks,      \* the async handlers suspended at an await
  nframes,    \* frames delivered so far
  announced,  \* the clients that have sent their connect frame
  closed,     \* the connections whose message listener has thrown and that
              \* the transport serves no more
  issued,     \* the tokens generateToken has returned
  order,      \* per identifier: the connect that wrote the record, and the
              \* latest-arrived connect that has registered
  done,       \* the handler that finished in the last step, if one did
  reply,      \* the response the last step sent, if it sent one
  request     \* the stub request the last step sent, if it sent one

vars == <<plugins, resolvers, deferred, stub, tasks, nframes, announced, closed,
          issued, order, done, reply, request>>

Pending == [t |-> "pending"]

NoToken == [payload |-> [name |-> "", version |-> ""], sig |-> <<"", "", "">>]

\* the id a peer gives the n-th frame
FrameId(n) == NumStr(n)

\* crypto.randomUUID(): a value no earlier call returned
randomUUID(used) == "u" \o NumStr(Cardinality(used) + 1)

CallRec(id, name, arguments) ==
  [id |-> id, type |-> "call", name |-> name, arguments |-> arguments,
   error |-> Undef, message |-> Undef]

RetrieveRec(id, name) ==
  [id |-> id, type |-> "retrieve", name |-> name, arguments |-> <<>>,
   error |-> Undef, message |-> Undef]

ConnectRec(id, name) ==
  [id |-> id, type |-> "connect", name |-> name, arguments |-> <<>>,
   error |-> Undef, message |-> Undef]

ResponseRec(id, error, message) ==
  [id |-> id, type |-> "response", name |-> "", arguments |-> <<>>,
   error |-> error, message |-> message]

OtherRec(id, type) ==
  [id |-> id, type |-> type, name |-> "", arguments |-> <<>>,
   error |-> Undef, message |-> Undef]

\* the type written as a constant instead of echoed
createHealthyResponse_fixedType(action, message) ==
  [id |-> action.id, error |-> Null, message |-> message, type |-> "call"]

createHealthyResponse(action, message) ==
  [id |-> action.id, error |-> Null, message |-> message, type |-> action.type]

\* the id left out of the envelope
createErrorResponse_noId(action, error) ==
  [id |-> "", error |-> Str(error), message |-> Str(error), type |-> action.type]

createErrorResponse(action, error) ==
  [id |-> action.id, error |-> Str(error), message |-> Str(error),
   type |-> action.type]

\* send(message, client): JSON.stringify(message) handed to the client
send(message, client) ==
  <<[to |-> client,
     msg |-> [id |-> message.id, type |-> message.type,
              error |-> JSONValue(message.error),
              message |-> JSONValue(message.message)]]>>

\* the stub's send of { type: "response", name: key, id, arguments: args }
sendRequest(key, id, args, client) ==
  <<[to |-> client,
     msg |-> [type |-> "response", name |-> key, id |-> id, arguments |-> args]]>>

\* a handler and what it did, for the last-step record
Handled(client, token, action, consulted, invoked, params, outcome, resolved) ==
  <<[client |-> client, token |-> token, action |-> action,
     consulted |-> consulted, invoked |-> invoked, params |-> params,
     outcome |-> outcome, resolved |-> resolved]>>

\* how an invocation ended: it returned a value, threw one, or there was none
Returned(v) == [kind |-> "return", value |-> v]

Threw(v) == [kind |-> "throw", value |-> v]

NoOutcome == [kind |-> "none", value |-> Undef]

Task(seq, client, token, action, pc) ==
  [seq |-> seq, client |-> client, token |-> token, action |-> action,
   pc |-> pc, corr |-> "", consulted |-> "", invoked |-> "", params |-> <<>>]

Empty == [x \in {} |-> Null]

Init ==
  /\ plugins = Empty
  /\ resolvers = {}
  /\ deferred = Empty
  /\ stub = Empty
  /\ tasks = {}
  /\ nframes = 0
  /\ announced = {}
  /\ closed = {}
  /\ issued = {}
  /\ order = Empty
  /\ done = <<>>
  /\ reply = <<>>
  /\ request = <<>>

\* f with x mapped to v, x added to its domain when it is new
Put(f, x, v) == [y \in DOMAIN f \cup {x} |-> IF y = x THEN v ELSE f[y]]

CanReceive == nframes < MaxFrames

\* client.on("message", ...): the transport delivers a frame of a connection
\* to the listener while it serves the connection
Served(c) == c \notin closed

CanSuspend == Cardinality(tasks) < MaxInFlight

(***************************************************************************)
(* connect: connectAction, one step per await.                             *)
(***************************************************************************)
TokenVersion == "0.0.1"

\* the message of a connect reply: the JWT, a string
Jwt(token) == [t |-> "string", s |-> token]

\* the directory name in place of the manifest's identifier
RegistryKey_actionName(action, manifest) == action.name

\* the registry key and the name the credential is issued for
RegistryKey(action, manifest) == manifest.identifier

\* handleMessage, case "connect": connectAction runs to its first await.  A
\* client announces a plugin once: it sends one connect frame.
ReceiveConnect(c, dir) ==
  /\ CanReceive
  /\ Served(c)
  /\ CanSuspend
  /\ c \notin announced
  /\ nframes' = nframes + 1
  /\ announced' = announced \cup {c}
  /\ tasks' = tasks \cup
       {Task(nframes + 1, c, NoToken, ConnectRec(FrameId(nframes + 1), dir), "read")}
  /\ done' = <<>>
  /\ reply' = <<>>
  /\ request' = <<>>
  /\ UNCHANGED <<closed, plugins, resolvers, deferred, stub, issued, order>>

\* the handler's catch: the error response is sent and the handler ends
Fail(t, error) ==
  /\ tasks' = tasks \ {t}
  /\ reply' = send(createErrorResponse(t.action, ErrorText(error)), t.client)
  /\ done' = Handled(t.client, t.token, t.action, "", "", <<>>, NoOutcome, "")
  /\ request' = <<>>

\* readTextFile and JSON.parse return; the remote stub is built and the
\* import starts
ReadManifest(t) ==
  /\ t \in tasks
  /\ t.pc = "read"
  /\ LET m == Manifest(t.action.name) IN
     IF m.ok
     THEN /\ stub' = Put(stub, m.identifier, t.client)
          /\ tasks' = (tasks \ {t}) \cup {[t EXCEPT !.pc = "import"]}
          /\ done' = <<>>
          /\ reply' = <<>>
          /\ request' = <<>>
     ELSE /\ Fail(t, m.error)
          /\ UNCHANGED stub
  /\ UNCHANGED <<closed, plugins, resolvers, deferred, nframes, announced, issued, order>>

\* the registration left out: the handler goes on to the token
ImportModule_unregistered(t) ==
  /\ t \in tasks
  /\ t.pc = "import"
  /\ IF Import(t.action.name).ok
     THEN /\ tasks' = (tasks \ {t}) \cup {[t EXCEPT !.pc = "token"]}
          /\ done' = <<>>
          /\ reply' = <<>>
          /\ request' = <<>>
     ELSE Fail(t, Import(t.action.name).error)
  /\ UNCHANGED <<closed, plugins, order, resolvers, deferred, stub, nframes, announced,
                 issued>>

\* the import returns; the plugin is registered and generateToken starts
ImportModule(t) ==
  /\ t \in tasks
  /\ t.pc = "import"
  /\ LET i == Import(t.action.name)
         key == RegistryKey(t.action, Manifest(t.action.name))
     IN
     IF i.ok
     THEN /\ plugins' = Put(plugins, key, [client |-> t.client, functions |-> i.mod])
          /\ order' = Put(order, key,
               [holds |-> t.seq,
                newest |-> IF key \in DOMAIN order /\ order[key].newest > t.seq
                           THEN order[key].newest ELSE t.seq])
          /\ tasks' = (tasks \ {t}) \cup {[t EXCEPT !.pc = "token"]}
          /\ done' = <<>>
          /\ reply' = <<>>
          /\ request' = <<>>
     ELSE /\ Fail(t, i.error)
          /\ UNCHANGED <<plugins, order>>
  /\ UNCHANGED <<closed, resolvers, deferred, stub, nframes, announced, issued>>

\* generateToken returns; the healthy response carries the token
IssueToken(t) ==
  /\ t \in tasks
  /\ t.pc = "token"
  /\ LET key == RegistryKey(t.action, Manifest(t.action.name))
         token == generateToken([name |-> key, version |-> TokenVersion])
     IN
     /\ issued' = issued \cup {token}
     /\ reply' = send(createHealthyResponse(t.action, Jwt(token)), t.client)
     /\ done' = Handled(t.client, t.token, t.action, key, "", <<>>, NoOutcome, "")
  /\ tasks' = tasks \ {t}
  /\ request' = <<>>
  /\ UNCHANGED <<closed, plugins, resolvers, deferred, stub, nframes, announced, order>>

(***************************************************************************)
(* call, retrieve, response.  Up to the return of authenticate() a call or *)
(* retrieve handler has read and written no broker state, so it enters the *)
(* model at that point; the frame counts as delivered then.                *)
(***************************************************************************)
\* the tokens a peer can present that the broker did not issue: garbage, a
\* token signed with another key, and an issued token with its name altered
Forged(name) ==
  [payload |-> [name |-> name, version |-> TokenVersion],
   sig |-> Sign("other", [name |-> name, version |-> TokenVersion])]

Tampered(token, name) ==
  [payload |-> [name |-> name, version |-> token.payload.version],
   sig |-> token.sig]

BadTokens ==
  {NoToken} \cup {Forged(n) : n \in {"math"}}
    \cup UNION {{Tampered(k, n) : n \in Identifiers \ {k.payload.name}} :
                 k \in issued}

\* the plugin taken from the action instead of the credential
PluginKey_fromAction(auth, action) == action.name

\* the name the registry is asked for: the credential's
PluginKey(auth, action) == auth.name

\* func.call(globalThis, action.arguments): the parameter list f receives
CallParams(arguments) == <<Arr(arguments)>>

\* createHealthyResponse(action, result || null)
CallResult(action, result) == createHealthyResponse(action, OrElse(result, Null))

\* callAction from the return of authenticate() to its return, or to the
\* await of a remote stub's promise
callAction(token, action) ==
  LET auth == authenticate(token)
      key == PluginKey(auth, action)
      none == [kind |-> "reply", consulted |-> "", invoked |-> "", params |-> <<>>,
               outcome |-> NoOutcome, member |-> "",
               response |-> createErrorResponse(action, "")]
  IN
  IF auth.error
  THEN [none EXCEPT !.response = createErrorResponse(action, "unauthenticated")]
  ELSE IF key \notin DOMAIN plugins
  THEN [none EXCEPT !.response =
          createErrorResponse(action, "package '" \o key \o "' not found")]
  ELSE LET func == Entry(plugins[key].functions, action.name)
           params == CallParams(action.arguments)
       IN
       IF ~Truthy(func)
       THEN [none EXCEPT !.consulted = key, !.response =
               createErrorResponse(action,
                 "function '" \o action.name \o "' not found in plugin '"
                   \o key \o "'")]
       ELSE IF func.t # "function"
       THEN [none EXCEPT !.consulted = key, !.response =
               createErrorResponse(action,
                 ErrorText(Err("TypeError", "func.call is not a function")))]
       ELSE LET r == Invoke(func.f, params)
                ran == [none EXCEPT !.consulted = key, !.invoked = func.f,
                                    !.params = params]
            IN
            CASE r.kind = "return" ->
                   [ran EXCEPT !.outcome = Returned(r.value),
                               !.response = CallResult(action, r.value)]
              [] r.kind = "throw" ->
                   [ran EXCEPT !.outcome = Threw(r.value),
                               !.response =
                                 createErrorResponse(action, ErrorText(r.value))]
              [] r.kind = "remote" ->
                   [ran EXCEPT !.kind = "remote", !.member = r.value.s]

CallNames == {"add", "zero", "noop", "boom", "ask", "util"}

ArgLists == {<<Num(2), Num(3)>>}

\* the (token, name) pairs of the call and retrieve frames
Requests(names) ==
  (issued \X names) \cup (BadTokens \X {"add"})

\* handleMessage, case "call", when callAction replies without suspending
HandleCall(c, token, name, args) ==
  /\ CanReceive
  /\ Served(c)
  /\ LET action == CallRec(FrameId(nframes + 1), name, args)
         r == callAction(token, action)
     IN
     /\ r.kind = "reply"
     /\ reply' = send(r.response, c)
     /\ done' = Handled(c, token, action, r.consulted, r.invoked, r.params,
                        r.outcome, "")
  /\ nframes' = nframes + 1
  /\ request' = <<>>
  /\ UNCHANGED <<closed, plugins, resolvers, deferred, stub, tasks, announced, issued, order>>

\* handleMessage, case "call", when the invoked function calls its remote
\* stub: the stub registers a resolver, sends the request and the handler
\* awaits the promise
SuspendCall(c, token, name, args) ==
  /\ CanReceive
  /\ Served(c)
  /\ CanSuspend
  /\ Cardinality(resolvers) < MaxPending
  /\ LET action == CallRec(FrameId(nframes + 1), name, args)
         r == callAction(token, action)
         id == randomUUID(resolvers)
     IN
     /\ r.kind = "remote"
     /\ r.consulted \in DOMAIN stub
     /\ resolvers' = resolvers \cup {id}
     /\ deferred' = Put(deferred, id, Pending)
     /\ request' = sendRequest(r.member, id, <<>>, stub[r.consulted])
     /\ tasks' = tasks \cup
          {[Task(nframes + 1, c, token, action, "await") EXCEPT
              !.corr = id, !.consulted = r.consulted, !.invoked = r.invoked,
              !.params = r.params]}
  /\ nframes' = nframes + 1
  /\ done' = <<>>
  /\ reply' = <<>>
  /\ UNCHANGED <<closed, plugins, stub, announced, issued, order>>

\* the handler going on without the promise being resolved
ResumeCall_early(t) ==
  /\ t \in tasks
  /\ t.pc = "await"
  /\ reply' = send(CallResult(t.action, Null), t.client)
  /\ done' = Handled(t.client, t.token, t.action, t.consulted, t.invoked,
                     t.params, Returned(Null), "")
  /\ tasks' = tasks \ {t}
  /\ request' = <<>>
  /\ UNCHANGED <<closed, plugins, resolvers, deferred, stub, nframes, announced, issued,
                 order>>

\* the awaited promise is resolved: the function returns its value and
\* callAction returns the healthy response
ResumeCall(t) ==
  /\ t \in tasks
  /\ t.pc = "await"
  /\ deferred[t.corr] # Pending
  /\ reply' = send(CallResult(t.action, deferred[t.corr]), t.client)
  /\ done' = Handled(t.client, t.token, t.action, t.consulted, t.invoked,
                     t.params, Returned(deferred[t.corr]), "")
  /\ tasks' = tasks \ {t}
  /\ request' = <<>>
  /\ UNCHANGED <<closed, plugins, resolvers, deferred, stub, nframes, announced, issued, order>>

\* retrieveAction from the return of authenticate() to its return
retrieveAction(token, action) ==
  LET auth == authenticate(token)
      key == PluginKey(auth, action)
      none == [consulted |-> "", response |-> createErrorResponse(action, "")]
  IN
  IF auth.error
  THEN [none EXCEPT !.response = createErrorResponse(action, "unauthenticated")]
  ELSE IF key \notin DOMAIN plugins
  THEN [none EXCEPT !.response =
          createErrorResponse(action, "package '" \o key \o "' not found")]
  ELSE LET constant == Entry(plugins[key].functions, action.name) IN
       IF ~Truthy(constant)
       THEN [none EXCEPT !.consulted = key, !.response =
               createErrorResponse(action,
                 "constant '" \o action.name \o "' not found in plugin '"
                   \o key \o "'")]
       ELSE [none EXCEPT !.consulted = key,
                         !.response = createHealthyResponse(action, constant)]

RetrieveNames == {"PI", "ZERO", "add", "util"}

\* handleMessage, case "retrieve"
HandleRetrieve(c, token, name) ==
  /\ CanReceive
  /\ Served(c)
  /\ LET action == RetrieveRec(FrameId(nframes + 1), name)
         r == retrieveAction(token, action)
     IN
     /\ reply' = send(r.response, c)
     /\ done' = Handled(c, token, action, r.consulted, "", <<>>, NoOutcome, "")
  /\ nframes' = nframes + 1
  /\ request' = <<>>
  /\ UNCHANGED <<closed, plugins, resolvers, deferred, stub, tasks, announced, issued, order>>

\* the credential of a response left unchecked
responseAction_unauthenticated(token, action) ==
  IF action.id \notin resolvers THEN ""
  ELSE IF Truthy(action.error) THEN ""
  ELSE action.id

\* the test of action.error inverted
responseAction_inverted(token, action) ==
  IF authenticate(token).error THEN ""
  ELSE IF action.id \notin resolvers THEN ""
  ELSE IF ~Truthy(action.error) THEN ""
  ELSE action.id

\* responseAction from the return of authenticate(): the id of the resolver
\* it invokes, "" when it invokes none
responseAction(token, action) ==
  IF authenticate(token).error THEN ""
  ELSE IF action.id \notin resolvers THEN ""
  ELSE IF Truthy(action.error) THEN ""
  ELSE action.id

\* resolver(message): the promise takes the value unless it is settled
Settle(id, message) ==
  IF deferred[id] = Pending THEN [deferred EXCEPT ![id] = message] ELSE deferred

\* the (token, id, error, message) of the response frames
Responses ==
  (issued \X resolvers
     \X {<<Null, Str("done")>>, <<Null, Str("late")>>, <<Str("failed"), Str("done")>>})
  \cup (issued \X {"u0"} \X {<<Null, Str("done")>>})
  \cup ({NoToken} \X resolvers \X {<<Null, Str("done")>>})

\* handleMessage, case "response": responseAction runs to its await of
\* authenticate()
ReceiveResponse(c, token, id, error, message) ==
  /\ CanReceive
  /\ Served(c)
  /\ CanSuspend
  /\ nframes' = nframes + 1
  /\ tasks' = tasks \cup
       {Task(nframes + 1, c, token, ResponseRec(id, error, message), "auth")}
  /\ done' = <<>>
  /\ reply' = <<>>
  /\ request' = <<>>
  /\ UNCHANGED <<closed, plugins, resolvers, deferred, stub, announced, issued, order>>

\* authenticate() returns and responseAction runs to its end
AuthResponse(t) ==
  /\ t \in tasks
  /\ t.pc = "auth"
  /\ LET resolved == responseAction(t.token, t.action) IN
     /\ deferred' = IF resolved = "" THEN deferred
                    ELSE Settle(resolved, t.action.message)
     /\ done' = Handled(t.client, t.token, t.action, "", "", <<>>, NoOutcome,
                        resolved)
  /\ tasks' = tasks \ {t}
  /\ reply' = <<>>
  /\ request' = <<>>
  /\ UNCHANGED <<closed, plugins, resolvers, stub, nframes, announced, issued, order>>

\* handleMessage, default case
HandleUnknown(c, type) ==
  /\ CanReceive
  /\ Served(c)
  /\ LET action == OtherRec(FrameId(nframes + 1), type) IN
     /\ reply' = send(createErrorResponse(action, "unknown action"), c)
     /\ done' = Handled(c, NoToken, action, "", "", <<>>, NoOutcome, "")
  /\ nframes' = nframes + 1
  /\ request' = <<>>
  /\ UNCHANGED <<closed, plugins, resolvers, deferred, stub, tasks, announced, issued, order>>

\* JSON.parse(data) and the read of message.action.type: the texts that do
\* not yield an action make handleMessage throw before it reads or writes
\* any state of the broker
Parse(data) ==
  CASE data = "{" ->
         [ok |-> FALSE, error |-> Err("SyntaxError", "Unexpected end of JSON input")]
    [] data = "{}" ->
         [ok |-> FALSE,
          error |-> Err("TypeError", "Cannot read properties of undefined")]
    [] OTHER -> [ok |-> TRUE, error |-> Null]

Malformed == {"{", "{}"}

\* What becomes of the connection when its message listener throws: nothing
\* in handleMessage or serve catches the exception, which leaves the listener
\* for the transport library; the library either reports it and goes on
\* serving the connection, or ends its receive loop for the connection.
ListenerOutcomes == {"reported", "closed"}

\* handleMessage on a frame that does not parse: it throws out of the
\* listener
HandleMalformed(c, data, outcome) ==
  /\ CanReceive
  /\ Served(c)
  /\ ~Parse(data).ok
  /\ nframes' = nframes + 1
  /\ closed' = IF outcome = "closed" THEN closed \cup {c} ELSE closed
  /\ done' = <<>>
  /\ reply' = <<>>
  /\ request' = <<>>
  /\ UNCHANGED <<plugins, resolvers, deferred, stub, tasks, announced, issued, order>>

Next ==
  \/ \E c \in Clients, dir \in Dirs : ReceiveConnect(c, dir)
  \/ \E t \in tasks : ReadManifest(t)
  \/ \E t \in tasks : ImportModule(t)
  \/ \E t \in tasks : IssueToken(t)
  \/ \E c \in Callers, r \in Requests(CallNames), args \in ArgLists :
       HandleCall(c, r[1], r[2], args)
  \/ \E c \in Callers, r \in Requests(CallNames), args \in ArgLists :
       SuspendCall(c, r[1], r[2], args)
  \/ \E t \in tasks : ResumeCall(t)
  \/ \E c \in Callers, r \in Requests(RetrieveNames) : HandleRetrieve(c, r[1], r[2])
  \/ \E c \in Callers, r \in Responses :
       ReceiveResponse(c, r[1], r[2], r[3][1], r[3][2])
  \/ \E t \in tasks : AuthResponse(t)
  \/ \E c \in Callers : HandleUnknown(c, "ping")
  \/ \E c \in Callers, data \in Malformed, outcome \in ListenerOutcomes :
       HandleMalformed(c, data, outcome)

Spec == Init /\ [][Next]_vars

\* The event loop runs every continuation whose awaited operation has
\* returned; reading a file, importing a module, signing and verifying
\* return.
FairSpec ==
  /\ Spec
  /\ WF_vars(\E t \in tasks : ReadManifest(t))
  /\ WF_vars(\E t \in tasks : ImportModule(t))
  /\ WF_vars(\E t \in tasks : IssueToken(t))
  /\ WF_vars(\E t \in tasks : AuthResponse(t))
  /\ WF_vars(\E t \in tasks : ResumeCall(t))

(***************************************************************************)
(* Properties.  They read the last step: the handler that finished (done), *)
(* the response it sent (reply) and the stub request sent (request).       *)
(***************************************************************************)
Finished(type) == done # <<>> /\ done[1].action.type = type

Authentic == ~authenticate(done[1].token).error

\* the last step answered the finished handler's client with this envelope
Replied(error, message) ==
  reply = <<[to |-> done[1].client,
             msg |-> [id |-> done[1].action.id, type |-> done[1].action.type,
                      error |-> error, message |-> message]]>>

RepliedError(text) == Replied(Str(text), Str(text))

\* what the claim expects a function to return for the action's arguments
Expected(f, arguments) == Invoke(f, arguments).value

\* C1: a call with a credential issued to a registered plugin P, naming a
\* function f of P, invokes f with the action's arguments a1..an as its
\* parameters, in order, and is answered {id, type: "call", error: null,
\* message: f's result}; add called with [2, 3] yields 5.
C1_CallAppliesArguments ==
  (/\ Finished("call")
   /\ done[1].invoked # ""
   /\ Invoke(done[1].invoked, done[1].action.arguments).kind = "return")
  => /\ done[1].params = done[1].action.arguments
     /\ Truthy(Expected(done[1].invoked, done[1].action.arguments))
          => Replied(Null,
                     JSONValue(Expected(done[1].invoked, done[1].action.arguments)))

\* C2: every issued token verifies to its name and version with error false;
\* a call or retrieve whose token the broker did not issue is answered
\* "unauthenticated", invokes no function and reads no function table; a
\* call or retrieve that is served carries an issued token.
C2_OnlyIssuedTokensServed ==
  /\ \A k \in issued :
       authenticate(k) = [name |-> k.payload.name, version |-> k.payload.version,
                          error |-> FALSE]
  /\ (Finished("call") \/ Finished("retrieve"))
     => /\ done[1].token \notin issued
          => /\ RepliedError("unauthenticated")
             /\ done[1].invoked = ""
             /\ done[1].consulted = ""
        /\ ~RepliedError("unauthenticated") => done[1].token \in issued

\* a call with an issued token whose name was altered is refused
C2_Witness ==
  /\ Finished("call")
  /\ \E k \in issued : \E n \in Identifiers \ {k.payload.name} :
       done[1].token = Tampered(k, n)
  /\ RepliedError("unauthenticated")

\* C3: the function table a call or retrieve reads is the one registered
\* under the credential's name, whatever the action's fields say: the
\* function invoked and the constant returned are entries of that table.
C3_CredentialNamesThePlugin ==
  ((Finished("call") \/ Finished("retrieve")) /\ Authentic)
  => LET P == done[1].token.payload.name IN
     /\ done[1].consulted \in {"", P}
     /\ done[1].invoked # ""
          => /\ P \in DOMAIN plugins
             /\ Entry(plugins[P].functions, done[1].action.name) = Fn(done[1].invoked)
     /\ (Finished("retrieve") /\ reply # <<>> /\ reply[1].msg.error = Null)
          => /\ P \in DOMAIN plugins
             /\ reply[1].msg.message =
                  JSONValue(Entry(plugins[P].functions, done[1].action.name))

\* the holder of math's credential names "util" while util is registered,
\* and math's table is the one read
C3_Witness ==
  /\ Finished("call")
  /\ Authentic
  /\ done[1].token.payload.name = "math"
  /\ done[1].action.name = "util"
  /\ "util" \in DOMAIN plugins
  /\ done[1].consulted = "math"

\* C4: the response that invokes the pending continuation of an id removes
\* the id from the correlator, so a continuation is invoked only for an id
\* that is still pending and no later response with that id invokes one.
C4_ConsumedByOneResponse ==
  [][(done' # <<>> /\ done'[1].resolved # "")
       => /\ done'[1].resolved \in resolvers
          /\ deferred[done'[1].resolved] = Pending
          /\ done'[1].resolved \notin resolvers']_vars

\* the correlation ids the stubs can generate
UUIDs == {"u" \o NumStr(k) : k \in 1..MaxPending}

\* a response with a valid credential, this id and no error is being handled
Answering(id) ==
  \E t \in tasks :
    /\ t.pc = "auth"
    /\ ~authenticate(t.token).error
    /\ t.action.id = id
    /\ ~Truthy(t.action.error)

C6_LastConnectWins ==
  \A P \in DOMAIN plugins : order[P].holds = order[P].newest

LoadOk(dir) == Manifest(dir).ok /\ Import(dir).ok

IssuedFor(name) == generateToken([name |-> name, version |-> "0.0.1"])

\* C7 as stated: a connect whose loading succeeds for action.name = N needs
\* no credential, registers the plugin under N and is answered with a
\* healthy response carrying a credential for (N, "0.0.1").
C7_RegistersUnderActionName ==
  (Finished("connect") /\ LoadOk(done[1].action.name))
  => /\ done[1].action.name \in DOMAIN plugins
     /\ Replied(Null, Jwt(IssuedFor(done[1].action.name)))

\* C7 as amended: a connect whose loading succeeds needs no credential,
\* registers the plugin under the identifier I its manifest declares and is
\* answered with a healthy response carrying a credential for (I, "0.0.1");
\* every issued credential authenticates as a registered plugin, so a later
\* call bearing it finds that plugin's record.
C7_RegistersUnderIdentifier ==
  /\ (Finished("connect") /\ LoadOk(done[1].action.name))
     => LET I == Manifest(done[1].action.name).identifier IN
        /\ authenticate(done[1].token).error
        /\ I \in DOMAIN plugins
        /\ IssuedFor(I) \in issued
        /\ Replied(Null, Jwt(IssuedFor(I)))
  /\ \A k \in issued :
       /\ ~authenticate(k).error
       /\ authenticate(k).name \in DOMAIN plugins
  /\ (Finished("call") /\ done[1].token \in issued)
     => /\ done[1].consulted = authenticate(done[1].token).name
        /\ ~RepliedError("package '" \o done[1].consulted \o "' not found")

\* the package directory util-pkg, whose manifest declares util, connected
C7_Witness ==
  /\ Finished("connect")
  /\ done[1].action.name = "util-pkg"
  /\ "util" \in DOMAIN plugins
  /\ Replied(Null, Jwt(IssuedFor("util")))

\* C8: the message of a successful call's response is the value the
\* function returned, whatever that value is; it is null only when the
\* function returned nothing.
C8_MessageIsReturnValue ==
  (Finished("call") /\ done[1].outcome.kind = "return")
  => Replied(Null, IF done[1].outcome.value = Undef THEN Null
                   ELSE JSONValue(done[1].outcome.value))

\* C9: a call whose function throws is answered with the string form of the
\* thrown value as its error; handling it leaves the registry, the
\* correlator and every other suspended handler as they were.
C9_ThrowBecomesErrorResponse ==
  [][(done' # <<>> /\ done'[1].action.type = "call"
        /\ done'[1].outcome.kind = "throw")
       => /\ done'[1].outcome.value = Err("Error", "boom")
            => reply' = <<[to |-> done'[1].client,
                           msg |-> [id |-> done'[1].action.id, type |-> "call",
                                    error |-> Str("Error: boom"),
                                    message |-> Str("Error: boom")]]>>
          /\ reply' # <<>>
          /\ reply'[1].msg.error = Str(JSString(done'[1].outcome.value))
          /\ plugins' = plugins
          /\ resolvers' = resolvers
          /\ deferred' = deferred
          /\ stub' = stub
          /\ tasks' = tasks]_vars

\* a call of boom was answered "Error: boom" while a connect is in flight
C9_Witness ==
  /\ Finished("call")
  /\ done[1].outcome = Threw(Err("Error", "boom"))
  /\ RepliedError("Error: boom")
  /\ tasks # {}

\* C10: a call or retrieve with a valid credential naming P is answered
\* "package 'P' not found" when P is not registered, and otherwise, when
\* action.name is no entry of P's table, "function '<name>' not found in
\* plugin 'P'" (call) or "constant '<name>' not found in plugin 'P'"
\* (retrieve); in these cases no function is invoked and the registry and
\* the correlator are unchanged.
C10_NotFoundErrors ==
  [][(/\ done' # <<>>
      /\ done'[1].action.type \in {"call", "retrieve"}
      /\ ~authenticate(done'[1].token).error)
       => LET d == done'[1]
              P == d.token.payload.name
              kind == IF d.action.type = "call" THEN "function" ELSE "constant"
              answer(text) ==
                reply' = <<[to |-> d.client,
                            msg |-> [id |-> d.action.id, type |-> d.action.type,
                                     error |-> Str(text), message |-> Str(text)]]>>
              untouched ==
                /\ d.invoked = ""
                /\ plugins' = plugins
                /\ resolvers' = resolvers
                /\ deferred' = deferred
          IN
          /\ P \notin DOMAIN plugins
               => answer("package '" \o P \o "' not found") /\ untouched
          /\ (P \in DOMAIN plugins /\ d.action.name \notin DOMAIN plugins[P].functions)
               => /\ answer(kind \o " '" \o d.action.name
                              \o "' not found in plugin '" \o P \o "'")
                  /\ untouched]_vars

\* math's credential and the name util, which math does not export
C10_Witness ==
  /\ Finished("retrieve")
  /\ Authentic
  /\ done[1].token.payload.name = "math"
  /\ done[1].action.name = "util"
  /\ RepliedError("constant 'util' not found in plugin 'math'")
  /\ done[1].invoked = ""

\* C11: a retrieve with a valid credential for a registered plugin P, naming
\* an entry of P's table, invokes nothing and is answered with error null and
\* the entry itself as the message, whatever value the entry holds; the
\* constant-not-found error is sent only when the table has no such entry.
C11_RetrieveReturnsEntry ==
  (/\ Finished("retrieve")
   /\ Authentic
   /\ done[1].token.payload.name \in DOMAIN plugins)
  => LET P == done[1].token.payload.name
         name == done[1].action.name
         table == plugins[P].functions
     IN
     /\ done[1].invoked = ""
     /\ name \in DOMAIN table => Replied(Null, JSONValue(table[name]))
     /\ RepliedError("constant '" \o name \o "' not found in plugin '" \o P \o "'")
          => name \notin DOMAIN table

\* a response handler that ends in this step
Ending(t) == t \in tasks /\ t \notin tasks' /\ t.pc = "auth"

\* the response carries a valid credential, a pending id and no error
Resolving(t) ==
  /\ ~authenticate(t.token).error
  /\ t.action.id \in resolvers
  /\ ~Truthy(t.action.error)

\* C12: the continuation of a correlation id i is invoked only by a response
\* with a valid credential, the id i and no error set; a response that fails
\* authentication, whose id is not pending or whose error is set invokes no
\* continuation, is sent no reply and leaves the registry and the pending
\* correlations as they were.
C12_OnlyValidResponseResolves ==
  /\ [][\A t \in tasks : Ending(t)
          => /\ done' # <<>>
             /\ done'[1].action = t.action
             /\ done'[1].resolved = IF Resolving(t) THEN t.action.id ELSE ""
             /\ reply' = <<>>
             /\ request' = <<>>
             /\ plugins' = plugins
             /\ resolvers' = resolvers
             /\ ~Resolving(t) => deferred' = deferred]_vars
  /\ [][(done' # <<>> /\ done'[1].resolved # "")
          => \E t \in tasks :
               Ending(t) /\ Resolving(t) /\ t.action.id = done'[1].resolved]_vars
  /\ [][\A id \in DOMAIN deferred :
          deferred'[id] # deferred[id]
          => \E t \in tasks :
               /\ Ending(t)
               /\ Resolving(t)
               /\ t.action.id = id
               /\ deferred'[id] = t.action.message]_vars

\* a response without a credential named the pending id u1 and was dropped
C12_Witness ==
  /\ Finished("response")
  /\ ~Authentic
  /\ done[1].action.id = "u1"
  /\ "u1" \in resolvers
  /\ deferred["u1"] = Pending
  /\ done[1].resolved = ""
  /\ reply = <<>>

\* C13: every reply carries the id and the type of the action that triggered
\* it and goes to the connection the action arrived on; a call, retrieve or
\* connect triggers at most one reply: the handler that replies has ended,
\* and a handler starts only when its frame arrives.
C13_RepliesMirrorTheAction ==
  /\ [][reply' # <<>>
          => /\ Len(reply') = 1
             /\ done' # <<>>
             /\ reply'[1].to = done'[1].client
             /\ reply'[1].msg.id = done'[1].action.id
             /\ reply'[1].msg.type = done'[1].action.type
             /\ done'[1].action.type # "response"
             /\ \/ \E t \in tasks \ tasks' :
                     t.client = done'[1].client /\ t.action = done'[1].action
                \/ /\ nframes' = nframes + 1
                   /\ done'[1].action.id = FrameId(nframes')
                   /\ tasks' = tasks
             /\ \A t \in tasks' : t.action.id # done'[1].action.id]_vars
  /\ [][\A t \in tasks' \ tasks :
          \/ t.seq = nframes' /\ nframes' = nframes + 1
          \/ \E u \in tasks \ tasks' : u.seq = t.seq /\ u.action = t.action]_vars

\* the connect of frame 1 was answered after a later frame had arrived
C13_Witness ==
  /\ Finished("connect")
  /\ done[1].action.id = "1"
  /\ nframes >= 2
  /\ reply # <<>>
  /\ reply[1].to = done[1].client
  /\ reply[1].msg.id = "1"
  /\ reply[1].msg.type = "connect"
  /\ reply[1].msg.error = Null

KnownTypes == {"call", "retrieve", "connect", "response"}

\* C14: a frame whose action type is none of call, retrieve, connect and
\* response is answered with exactly one generic error response that echoes
\* the action's id and goes to the connection it came from; the registry and
\* the correlator are unchanged and the connection is still served.
C14_UnknownTypeAnswered ==
  [][(done' # <<>> /\ done'[1].action.type \notin KnownTypes)
       => /\ reply' = <<[to |-> done'[1].client,
                          msg |-> [id |-> done'[1].action.id,
                                   type |-> done'[1].action.type,
                                   error |-> Str("unknown action"),
                                   message |-> Str("unknown action")]]>>
          /\ nframes' = nframes + 1
          /\ done'[1].action.id = FrameId(nframes')
          /\ request' = <<>>
          /\ plugins' = plugins
          /\ resolvers' = resolvers
          /\ deferred' = deferred
          /\ stub' = stub
          /\ tasks' = tasks
          /\ closed' = closed
          /\ done'[1].client \notin closed']_vars

\* a frame of type "ping" was answered while a plugin is registered and a
\* handler is suspended
C14_Witness ==
  /\ Finished("ping")
  /\ RepliedError("unknown action")
  /\ DOMAIN plugins # {}
  /\ tasks # {}
  /\ done[1].client \notin closed

\* the listener threw on the frame that arrived in this step
ListenerThrew == nframes' = nframes + 1 /\ done' = <<>> /\ tasks' = tasks

\* C15: a frame that does not parse into {token, action} is fatal to that
\* frame only: the registry and the correlator are unchanged and the
\* connections served before it are served after it, so that their later
\* frames are dispatched and answered.
C15_ParseFailureDropsTheFrameOnly ==
  [][ListenerThrew
       => /\ plugins' = plugins
          /\ resolvers' = resolvers
          /\ deferred' = deferred
          /\ closed' = closed]_vars

\* a call suspended on the stub request with this correlation id
Suspended(id) == \E t \in tasks : t.pc = "await" /\ t.corr = id

Failing(t) == t.action.type = "connect" /\ ~LoadOk(t.action.name)

\* the text of the error the loader raises for this package directory
LoaderError(dir) ==
  JSString(IF Manifest(dir).ok THEN Import(dir).error ELSE Manifest(dir).error)

\* C17: a connect whose manifest or plugin code fails to load is answered
\* with an error response carrying the loader's error text, and no step of
\* its handler issues a credential, changes the registry or changes the
\* connection the remote stub of a registered plugin sends to.
C17_FailedConnectLeavesNoTrace ==
  [][\A t \in tasks :
       (Failing(t) /\ t \notin tasks')
       => /\ issued' = issued
          /\ plugins' = plugins
          /\ \A P \in DOMAIN plugins : P \in DOMAIN stub => stub'[P] = stub[P]
          /\ (\A u \in tasks' : u.seq # t.seq)
               => reply' = <<[to |-> t.client,
                              msg |-> [id |-> t.action.id, type |-> "connect",
                                       error |-> Str(LoaderError(t.action.name)),
                                       message |-> Str(LoaderError(t.action.name))]]>>]_vars

\* C18: every credential the broker has issued names a plugin of the
\* registry: the plugin is registered before the credential is issued and no
\* record is ever removed; so a call or retrieve bearing an issued credential
\* is never answered "package '<name>' not found".
C18_IssuedNamesRegistered ==
  /\ [](\A k \in issued : k.payload.name \in DOMAIN plugins)
  /\ [][/\ DOMAIN plugins \subseteq DOMAIN plugins'
        /\ issued \subseteq issued'
        /\ \A k \in issued' \ issued : k.payload.name \in DOMAIN plugins]_vars
  /\ []((/\ Finished("call") \/ Finished("retrieve")
         /\ done[1].token \in issued)
        => /\ done[1].consulted = done[1].token.payload.name
           /\ reply # <<>>
           /\ reply[1].msg.error
                # Str("package '" \o done[1].token.payload.name \o "' not found"))

\* a retrieve with util's issued credential read util's table
C18_Witness ==
  /\ Finished("retrieve")
  /\ done[1].token = IssuedFor("util")
  /\ IssuedFor("util") \in issued
  /\ "util" \in DOMAIN plugins
  /\ done[1].consulted = "util"
  /\ Replied(Null, Num(4))

\* a connect for the plugin P is in flight
Connecting(P) ==
  \E t \in tasks :
    /\ t.action.type = "connect"
    /\ Manifest(t.action.name).ok
    /\ Manifest(t.action.name).identifier = P

\* C19: whenever no connect for a registered plugin P is in flight, the
\* connection P's remote stub sends its requests to is the connection the
\* registry records as P's.
C19_StubTargetsOwner ==
  \A P \in DOMAIN plugins :
    ~Connecting(P) => (P \in DOMAIN stub /\ stub[P] = plugins[P].client)

\* C20: the pending correlation created by the remote stub of plugin P is
\* resolved only by a response bearing a credential issued to P; a response
\* with the same id and a valid credential of another plugin Q does not
\* resolve it.
C20_OnlyOwnerResolves ==
  [][\A t \in tasks : \A r \in tasks :
       (/\ t.pc = "await"
        /\ deferred[t.corr] = Pending
        /\ Ending(r)
        /\ r.action.id = t.corr
        /\ r.token.payload.name # t.consulted)
       => /\ deferred'[t.corr] = Pending
          /\ done'[1].resolved = ""]_vars

====
